---------------------------- MODULE Spec2Model ----------------------------
(***************************************************************************)
(* Model of the two notebook cell magics of ipython-extensions:            *)
(*   src/graphviz.py  graphviz() over pipes and the %%graphviz magic       *)
(*   src/tikz.py      run_latex(), convert_pdf2svg(), convert_pdf2png()    *)
(*                    over temporary directories and the %%tikz magic      *)
(*                                                                         *)
(* Text (Python str) is a sequence of code points, bytes a sequence of     *)
(* byte values; str.encode('utf-8') and bytes.decode('utf-8') are the      *)
(* operators Encode and Decode.  The external programs (dot, pdflatex,     *)
(* pdf2svg, convert) are the environment: whether they can be launched,    *)
(* their exit status and the files or streams they leave behind are chosen *)
(* nondeterministically.  Writes done by the module itself (code.tex,      *)
(* inpdf.pdf, the --save file) are taken to succeed.                       *)
(***************************************************************************)
EXTENDS Integers, Sequences, FiniteSets, TLC

(***************************************************************************)
(* Bounds of the model.                                                    *)
(***************************************************************************)
\* requests (cell executions, direct calls) made in one session
MaxRequests == 2
\* longest list of names given to --library
MaxLibs == 2
\* largest exit status an external process ends with (0 .. MaxExit)
MaxExit == 2

ReturnCodes == 0 .. MaxExit

\* cell bodies: "d" and U+00E9
Cells == { <<100>>, <<233>> }
\* contents of a file or stream an external process writes: "P", the UTF-8
\* encoding of U+00E9, and a truncated multi-byte sequence (not UTF-8)
ByteStrings == { <<80>>, <<195, 169>>, <<195>> }
\* names a caller passes to --library
LibraryNames == { "arrows", "automata" }

\* a value that may be missing (a file that may not exist, an unset option)
Optional(S) == { {} } \cup { {x} : x \in S }
The(opt) == CHOOSE x \in opt : TRUE

\* how many entries of seq lie in S
Count(seq, S) == Cardinality({i \in DOMAIN seq : seq[i] \in S})

RECURSIVE SeqsUpTo(_, _)
SeqsUpTo(S, n) ==
    IF n = 0 THEN { <<>> }
    ELSE LET shorter == SeqsUpTo(S, n - 1)
         IN  shorter \cup { Append(s, x) : s \in shorter, x \in S }

(***************************************************************************)
(* str.encode('utf-8') / bytes.decode('utf-8') for code points below       *)
(* U+0800 (one- and two-byte forms; the byte values of ByteStrings stay    *)
(* below 0xE0, so longer forms do not occur).                              *)
(***************************************************************************)
RECURSIVE Encode(_)
Encode(text) ==
    IF text = <<>> THEN <<>>
    ELSE LET cp == Head(text)
         IN  (IF cp < 128 THEN <<cp>>
              ELSE <<192 + (cp \div 64), 128 + (cp % 64)>>) \o Encode(Tail(text))

\* whether bytes.decode('utf-8') returns (TRUE) or raises UnicodeDecodeError
RECURSIVE Decodable(_)
Decodable(bytes) ==
    IF bytes = <<>> THEN TRUE
    ELSE LET b == Head(bytes)
         IN  IF b < 128 THEN Decodable(Tail(bytes))
             ELSE /\ b >= 194 /\ b <= 223
                  /\ Len(bytes) >= 2
                  /\ bytes[2] >= 128 /\ bytes[2] <= 191
                  /\ Decodable(Tail(Tail(bytes)))

RECURSIVE Decode(_)
Decode(bytes) ==
    IF bytes = <<>> THEN <<>>
    ELSE LET b == Head(bytes)
         IN  IF b < 128 THEN <<b>> \o Decode(Tail(bytes))
             ELSE <<(b - 192) * 64 + (bytes[2] - 128)>> \o Decode(Tail(Tail(bytes)))

\* 'no output created'
NoOutputCreated ==
    <<110, 111, 32, 111, 117, 116, 112, 117, 116, 32, 99, 114, 101, 97, 116,
      101, 100>>
\* 'no log file created'
NoLogFileCreated ==
    <<110, 111, 32, 108, 111, 103, 32, 102, 105, 108, 101, 32, 99, 114, 101,
      97, 116, 101, 100>>
\* str(error) of the OSError subprocess raises when the program cannot be
\* started: '[Errno 2] No such file or directory'
OSErrorText ==
    <<91, 69, 114, 114, 110, 111, 32, 50, 93, 32, 78, 111, 32, 115, 117, 99,
      104, 32, 102, 105, 108, 101, 32, 111, 114, 32, 100, 105, 114, 101, 99,
      116, 111, 114, 121>>

(***************************************************************************)
(* Module constants of tikz.py and graphviz.py.                            *)
(***************************************************************************)
DefaultLibraryList ==
    <<"arrows", "snakes", "backgrounds", "patterns", "matrix",
      "shapes", "fit", "calc", "shadows", "plotmarks">>

DEFAULT_PDFLATEX == <<"pdflatex", "-shell-escape", "-interaction=nonstopmode">>
DEFAULT_PDF2SVG == <<"pdf2svg">>
DEFAULT_PDF2PNG == <<"convert", "-density", "300">>

\* class Command of graphviz.py
Commands == { "dot", "neato", "fdp", "twopi", "circo" }

\* the programs run_latex and the converters start
Converters == { "pdf2svg", "convert" }


(***************************************************************************)
(* State.                                                                  *)
(***************************************************************************)
VARIABLES
    DEFAULT_LIBRARIES,  \* tikz.py's module-level list
    pc,                 \* where the current request stands
    args,               \* the parsed arguments of the current request
    latex_document,     \* tikz(): the assembled document
    pdf_content,        \* tikz(): what run_latex returned, {} before that
    frame,              \* the running call of graphviz / run_latex / convert_*
    fs,                 \* the temporary directories that exist, with their files
    procs,              \* the external processes that are running
    launched,           \* the programs the current request has started, in order
    savefile,           \* the file at the --save path, {} when it does not exist
    saveWrites,         \* how often the current request has written that file
    result,             \* what the request gave its caller
    nreq                \* requests made so far

vars == <<DEFAULT_LIBRARIES, pc, args, latex_document, pdf_content, frame, fs,
          procs, launched, savefile, saveWrites, result, nreq>>

\* ---- exceptions and outcomes of a call -------------------------------
NoExc ==
    [type |-> "none", command |-> <<>>, returncode |-> 0, stderr |-> <<>>,
     code |-> <<>>]

LatexError(command, returncode, stderr, code) ==
    [type |-> "LatexError", command |-> command, returncode |-> returncode,
     stderr |-> stderr, code |-> code]

\* ConvertError has no code attribute; the field stays empty
ConvertError(command, returncode, stderr) ==
    [type |-> "ConvertError", command |-> command, returncode |-> returncode,
     stderr |-> stderr, code |-> <<>>]

GraphvizError(command, returncode, stderr, code) ==
    [type |-> "GraphvizError", command |-> command, returncode |-> returncode,
     stderr |-> stderr, code |-> code]

\* exceptions of the interpreter and the standard library
Builtin(type) == [NoExc EXCEPT !.type = type]

NoOutcome == [kind |-> "none", value |-> <<>>, exc |-> NoExc]
Return(value) == [kind |-> "return", value |-> value, exc |-> NoExc]
Raise(exc) == [kind |-> "raise", value |-> <<>>, exc |-> exc]

\* ---- the frame of a call ------------------------------------------------
\* oserror, exited and artifact record what happened to the external process:
\* whether starting it or talking to it raised OSError, whether it ran to its
\* exit, and whether the expected output (file or stdout stream) was there.
NoFrame ==
    [fn |-> "none", step |-> "none", code |-> <<>>, fmt |-> "svg",
     command |-> <<>>, tempdir |-> 0, oserror |-> "none", exited |-> FALSE,
     artifact |-> FALSE, returncode |-> 0, stdout |-> <<>>, stderr |-> <<>>,
     outcome |-> NoOutcome]

NoArgs ==
    [magic |-> "none", format |-> "svg", command |-> "dot", options |-> <<>>,
     library |-> <<>>, libraryGiven |-> FALSE, package |-> <<>>, save |-> {},
     cell |-> <<>>]

NoDocument == [packages |-> <<>>, libraries |-> <<>>, code |-> <<>>]

NoResult == [status |-> "none", display |-> "none", data |-> <<>>, exc |-> NoExc]
Displayed(display, data) ==
    [status |-> "returned", display |-> display, data |-> data, exc |-> NoExc]
Propagated(exc) ==
    [status |-> "raised", display |-> "none", data |-> <<>>, exc |-> exc]

Init ==
    /\ DEFAULT_LIBRARIES = DefaultLibraryList
    /\ pc = "Idle"
    /\ args = NoArgs
    /\ latex_document = NoDocument
    /\ pdf_content = {}
    /\ frame = NoFrame
    /\ fs = <<>>
    /\ procs = {}
    /\ launched = <<>>
    /\ savefile = {}
    /\ saveWrites = 0
    /\ result = NoResult
    /\ nreq = 0

\* a request may start when none is running
Ready == pc \in {"Idle", "Succeeded", "Failed"} /\ nreq < MaxRequests

\* what every request resets as it starts
BeginRequest ==
    /\ nreq' = nreq + 1
    /\ launched' = <<>>
    /\ saveWrites' = 0
    /\ pdf_content' = {}
    /\ result' = NoResult

(***************************************************************************)
(* Temporary directories and external processes of the file-based calls.   *)
(***************************************************************************)
\* mkdtemp: a directory name no existing directory has
NewDir == CHOOSE d \in 1 .. Cardinality(DOMAIN fs) + 1 : d \notin DOMAIN fs

\* with TemporaryDirectory() as tempdir: a fresh directory, the input file
\* written into it, and the command line completed
EnterTempDir(fn, name, content, command) ==
    /\ frame.fn = fn /\ frame.step = "with"
    /\ fs' = (NewDir :> (name :> content)) @@ fs
    /\ frame' = [frame EXCEPT !.step = "call", !.tempdir = NewDir,
                              !.command = command]
    /\ UNCHANGED <<DEFAULT_LIBRARIES, pc, args, latex_document, pdf_content,
                   procs, launched, savefile, saveWrites, result, nreq>>

\* returncode = call(command, cwd=tempdir): the program starts, or call
\* raises OSError and the except clause raises `failure`
CallCommand(fn, failure) ==
    /\ frame.fn = fn /\ frame.step = "call"
    /\ \/ /\ frame' = [frame EXCEPT !.step = "exit", !.oserror = "launch",
                                    !.outcome = Raise(failure)]
          /\ UNCHANGED <<procs, launched>>
       \/ /\ procs' = procs \cup {frame.command[1]}
          /\ launched' = Append(launched, frame.command[1])
          /\ frame' = [frame EXCEPT !.step = "running"]
    /\ UNCHANGED <<DEFAULT_LIBRARIES, pc, args, latex_document, pdf_content,
                   fs, savefile, saveWrites, result, nreq>>

AddFile(files, name, opt) ==
    IF opt = {} THEN files ELSE (name :> The(opt)) @@ files

\* the program ends: it has written (or not) its output file `out` and its
\* log file, and call() returns its exit status
ProcessExit(fn, out, log) ==
    /\ frame.fn = fn /\ frame.step = "running"
    /\ \E rc \in ReturnCodes, o \in Optional(ByteStrings),
          l \in (IF log = "" THEN { {} } ELSE Optional(ByteStrings)) :
          /\ fs' = [fs EXCEPT ![frame.tempdir] = AddFile(AddFile(@, out, o), log, l)]
          /\ frame' = [frame EXCEPT !.step = "check", !.exited = TRUE,
                                    !.returncode = rc, !.artifact = (o # {})]
    /\ procs' = procs \ {frame.command[1]}
    /\ UNCHANGED <<DEFAULT_LIBRARIES, pc, args, latex_document, pdf_content,
                   launched, savefile, saveWrites, result, nreq>>

\* the code after call(), up to its return or raise
CheckResult(fn, outcome) ==
    /\ frame.fn = fn /\ frame.step = "check"
    /\ frame' = [frame EXCEPT !.step = "exit", !.outcome = outcome]
    /\ UNCHANGED <<DEFAULT_LIBRARIES, pc, args, latex_document, pdf_content,
                   fs, procs, launched, savefile, saveWrites, result, nreq>>

\* mutant of DirsAfterExit: the directory is removed by hand before the
\* return statement only, so a raise leaves it behind
DirsAfterReturnOnly ==
    IF frame.outcome.kind = "return"
    THEN [d \in DOMAIN fs \ {frame.tempdir} |-> fs[d]]
    ELSE fs

\* the directories left once the with block of the call has been left:
\* TemporaryDirectory.__exit__ removes the directory on return and on raise
DirsAfterExit == [d \in DOMAIN fs \ {frame.tempdir} |-> fs[d]]

LeaveTempDir(fn) ==
    /\ frame.fn = fn /\ frame.step = "exit"
    /\ fs' = DirsAfterExit
    /\ frame' = [frame EXCEPT !.step = "done"]
    /\ UNCHANGED <<DEFAULT_LIBRARIES, pc, args, latex_document, pdf_content,
                   procs, launched, savefile, saveWrites, result, nreq>>

Files == fs[frame.tempdir]

(***************************************************************************)
(* run_latex(code, command=DEFAULT_PDFLATEX)                               *)
(***************************************************************************)
\* code.encode('utf-8') of an assembled document: the template, the
\* directives and the options are ASCII, the cell body is text
EncodeDocument(doc) ==
    [doc EXCEPT !.code = [@ EXCEPT !.code = Encode(@)]]

run_latex_enter ==
    EnterTempDir("run_latex", "code.tex", EncodeDocument(frame.code),
                 DEFAULT_PDFLATEX \o <<"code.tex">>)

run_latex_call ==
    CallCommand("run_latex",
                LatexError(frame.command, -1, OSErrorText, frame.code))

pdflatex_exit == ProcessExit("run_latex", "code.pdf", "code.log")

\* lines 116-128
RunLatexOutcome(files, command, returncode, code) ==
    IF returncode # 0
    THEN IF "code.log" \in DOMAIN files
         THEN IF Decodable(files["code.log"])
              THEN Raise(LatexError(command, returncode,
                                    Decode(files["code.log"]), code))
              ELSE Raise(Builtin("UnicodeDecodeError"))
         ELSE Raise(LatexError(command, returncode, NoLogFileCreated, code))
    ELSE IF "code.pdf" \in DOMAIN files
         THEN Return(files["code.pdf"])
         ELSE Raise(LatexError(command, returncode, NoOutputCreated, code))

run_latex_check ==
    CheckResult("run_latex",
                RunLatexOutcome(Files, frame.command, frame.returncode, frame.code))

run_latex_exit == LeaveTempDir("run_latex")

(***************************************************************************)
(* convert_pdf2svg(pdf_content, command=DEFAULT_PDF2SVG)                   *)
(***************************************************************************)
convert_pdf2svg_enter ==
    EnterTempDir("convert_pdf2svg", "inpdf.pdf", frame.code,
                 DEFAULT_PDF2SVG \o <<"inpdf.pdf", "outsvg.svg">>)

convert_pdf2svg_call ==
    CallCommand("convert_pdf2svg", ConvertError(frame.command, -1, OSErrorText))

pdf2svg_exit == ProcessExit("convert_pdf2svg", "outsvg.svg", "")

\* mutant of ConvertPdf2SvgOutcome: a missing outsvg.svg gives an empty result
ConvertPdf2SvgOutcomeEmpty(files, command, returncode) ==
    IF returncode # 0
    THEN Raise(ConvertError(command, -1, <<>>))
    ELSE IF "outsvg.svg" \in DOMAIN files
         THEN IF Decodable(files["outsvg.svg"])
              THEN Return(Decode(files["outsvg.svg"]))
              ELSE Raise(Builtin("UnicodeDecodeError"))
         ELSE Return(<<>>)

\* lines 140-147
ConvertPdf2SvgOutcome(files, command, returncode) ==
    IF returncode # 0
    THEN Raise(ConvertError(command, -1, <<>>))
    ELSE IF "outsvg.svg" \in DOMAIN files
         THEN IF Decodable(files["outsvg.svg"])
              THEN Return(Decode(files["outsvg.svg"]))
              ELSE Raise(Builtin("UnicodeDecodeError"))
         ELSE Raise(ConvertError(command, returncode, NoOutputCreated))

convert_pdf2svg_check ==
    CheckResult("convert_pdf2svg",
                ConvertPdf2SvgOutcome(Files, frame.command, frame.returncode))

convert_pdf2svg_exit == LeaveTempDir("convert_pdf2svg")

(***************************************************************************)
(* convert_pdf2png(pdf_content, command=DEFAULT_PDF2PNG)                   *)
(***************************************************************************)
convert_pdf2png_enter ==
    EnterTempDir("convert_pdf2png", "inpdf.pdf", frame.code,
                 DEFAULT_PDF2PNG \o <<"inpdf.pdf", "outpng.png">>)

convert_pdf2png_call ==
    CallCommand("convert_pdf2png", ConvertError(frame.command, -1, OSErrorText))

convert_exit == ProcessExit("convert_pdf2png", "outpng.png", "")

\* lines 159-166
ConvertPdf2PngOutcome(files, command, returncode) ==
    IF returncode # 0
    THEN Raise(ConvertError(command, -1, <<>>))
    ELSE IF "outpng.png" \in DOMAIN files
         THEN Return(files["outpng.png"])
         ELSE Raise(ConvertError(command, returncode, NoOutputCreated))

convert_pdf2png_check ==
    CheckResult("convert_pdf2png",
                ConvertPdf2PngOutcome(Files, frame.command, frame.returncode))

convert_pdf2png_exit == LeaveTempDir("convert_pdf2png")

\* a caller of the module calls convert_pdf2png(pdf_content)
call_convert_pdf2png ==
    /\ Ready
    /\ BeginRequest
    /\ \E pdf \in ByteStrings :
          frame' = [NoFrame EXCEPT !.fn = "convert_pdf2png", !.step = "with",
                                   !.code = pdf]
    /\ args' = [NoArgs EXCEPT !.magic = "convert_pdf2png"]
    /\ latex_document' = NoDocument
    /\ pc' = "convert_pdf2png"
    /\ UNCHANGED <<DEFAULT_LIBRARIES, fs, procs, savefile>>

\* what a finished call hands to the request that made it
Finish(outcome, display) ==
    IF outcome.kind = "raise"
    THEN /\ pc' = "Failed"
         /\ result' = Propagated(outcome.exc)
    ELSE /\ pc' = "Succeeded"
         /\ result' = Displayed(display, outcome.value)

convert_pdf2png_return ==
    /\ pc = "convert_pdf2png"
    /\ frame.fn = "convert_pdf2png" /\ frame.step = "done"
    /\ Finish(frame.outcome, "none")
    /\ frame' = [frame EXCEPT !.step = "returned"]
    /\ UNCHANGED <<DEFAULT_LIBRARIES, args, latex_document, pdf_content, fs,
                   procs, launched, savefile, saveWrites, nreq>>

(***************************************************************************)
(* graphviz(code, options=[], fmt=Format.SVG, cmd=Command.DOT)             *)
(***************************************************************************)
\* line 64: Popen starts the program or raises OSError, which no handler
\* of graphviz() encloses
graphviz_Popen ==
    /\ frame.fn = "graphviz" /\ frame.step = "Popen"
    /\ \/ /\ frame' = [frame EXCEPT !.step = "done", !.oserror = "launch",
                                    !.outcome = Raise(Builtin("OSError"))]
          /\ UNCHANGED <<procs, launched>>
       \/ /\ procs' = procs \cup {frame.command[1]}
          /\ launched' = Append(launched, frame.command[1])
          /\ frame' = [frame EXCEPT !.step = "communicate"]
    /\ UNCHANGED <<DEFAULT_LIBRARIES, pc, args, latex_document, pdf_content,
                   fs, savefile, saveWrites, result, nreq>>

\* lines 65-69: communicate() returns both streams, or raises OSError and the
\* handler reads what the streams still hold and waits; either way the
\* process has ended and its exit status is known
graphviz_communicate ==
    /\ frame.fn = "graphviz" /\ frame.step = "communicate"
    /\ \E rc \in ReturnCodes, out \in ByteStrings, err \in ByteStrings,
          failed \in BOOLEAN :
          frame' = [frame EXCEPT !.step = "check", !.exited = TRUE,
                                 !.artifact = TRUE, !.returncode = rc,
                                 !.stdout = out, !.stderr = err,
                                 !.oserror = IF failed THEN "communicate"
                                             ELSE "none"]
    /\ procs' = procs \ {frame.command[1]}
    /\ UNCHANGED <<DEFAULT_LIBRARIES, pc, args, latex_document, pdf_content,
                   fs, launched, savefile, saveWrites, result, nreq>>

\* lines 70-75
GraphvizOutcome(command, returncode, stdout, stderr, fmt, code) ==
    IF returncode # 0
    THEN IF Decodable(stderr)
         THEN Raise(GraphvizError(command, returncode, Decode(stderr), code))
         ELSE Raise(Builtin("UnicodeDecodeError"))
    ELSE IF fmt = "svg"
         THEN IF Decodable(stdout)
              THEN Return(Decode(stdout))
              ELSE Raise(Builtin("UnicodeDecodeError"))
         ELSE Return(stdout)

graphviz_check ==
    /\ frame.fn = "graphviz" /\ frame.step = "check"
    /\ frame' = [frame EXCEPT
                   !.step = "done",
                   !.outcome = GraphvizOutcome(frame.command, frame.returncode,
                                               frame.stdout, frame.stderr,
                                               frame.fmt, frame.code)]
    /\ UNCHANGED <<DEFAULT_LIBRARIES, pc, args, latex_document, pdf_content,
                   fs, procs, launched, savefile, saveWrites, result, nreq>>

(***************************************************************************)
(* GraphvizMagics.graphviz(line, cell)                                     *)
(***************************************************************************)
\* _FORMAT_TO_DISPLAY
FormatToDisplay(fmt) == IF fmt = "svg" THEN "SVG" ELSE "Image"

\* lines 96-100, up to the call of graphviz()
graphviz_magic ==
    /\ Ready
    /\ BeginRequest
    /\ \E f \in {"svg", "png"}, c \in Commands,
          o \in { <<"-Gdpi=72">> }, cell \in Cells :
          /\ args' = [NoArgs EXCEPT !.magic = "graphviz", !.format = f,
                                    !.command = c, !.options = o, !.cell = cell]
          /\ frame' = [NoFrame EXCEPT !.fn = "graphviz", !.step = "Popen",
                                      !.code = cell, !.fmt = f,
                                      !.command = <<c>> \o o \o <<"-T", f>>]
    /\ latex_document' = NoDocument
    /\ pc' = "graphviz"
    /\ UNCHANGED <<DEFAULT_LIBRARIES, fs, procs, savefile>>

\* lines 100-102
graphviz_magic_return ==
    /\ pc = "graphviz"
    /\ frame.fn = "graphviz" /\ frame.step = "done"
    /\ Finish(frame.outcome, FormatToDisplay(args.format))
    /\ frame' = [frame EXCEPT !.step = "returned"]
    /\ UNCHANGED <<DEFAULT_LIBRARIES, args, latex_document, pdf_content, fs,
                   procs, launched, savefile, saveWrites, nreq>>

(***************************************************************************)
(* TikzMagics.tikz(line, cell)                                             *)
(***************************************************************************)
\* sep.join(strings)
RECURSIVE Join(_, _)
Join(strings, sep) ==
    IF strings = <<>> THEN ""
    ELSE IF Len(strings) = 1 THEN strings[1]
    ELSE strings[1] \o sep \o Join(Tail(strings), sep)

\* lines 197-199: tikz_picture_template filled in
TikzPicture(options, cell) == [options |-> Join(options, " "), code |-> cell]

\* lines 201-203
LatexPackages(package) ==
    [i \in 1 .. Len(package) |-> "\\usepackage{" \o package[i] \o "}"]

\* mutant of TikzLibraries: the union of the two lists, each name once
TikzLibrariesUnion(library) ==
    LET all == library \o SelectSeq(DEFAULT_LIBRARIES,
                                    LAMBDA d : \A i \in DOMAIN library : library[i] # d)
    IN  [i \in 1 .. Len(all) |-> "\\usetikzlibrary{" \o all[i] \o "}"]

\* lines 205-207
TikzLibraries(library) ==
    LET all == library \o DEFAULT_LIBRARIES
    IN  [i \in 1 .. Len(all) |-> "\\usetikzlibrary{" \o all[i] \o "}"]

\* lines 209-212: latex_template filled in; the two blocks are kept as their
\* lines
LatexDocument(package, library, options, cell) ==
    [packages |-> LatexPackages(package), libraries |-> TikzLibraries(library),
     code |-> TikzPicture(options, cell)]

\* args.library: the names given to -l/--library, or the parser's default,
\* DEFAULT_LIBRARIES, when the option is left out
ParsedLibrary(given) == IF given = {} THEN DEFAULT_LIBRARIES ELSE The(given)

\* lines 194-214, up to the call of run_latex()
tikz ==
    /\ Ready
    /\ BeginRequest
    /\ \E f \in {"svg", "png"},
          l \in Optional(SeqsUpTo(LibraryNames, MaxLibs)),
          p \in { <<"pgfplots">> },
          o \in { <<"thick", "scale=2">> },
          s \in Optional({"out.pdf"}),
          cell \in Cells :
          /\ args' = [NoArgs EXCEPT !.magic = "tikz", !.format = f,
                                    !.library = ParsedLibrary(l),
                                    !.libraryGiven = (l # {}),
                                    !.package = p, !.options = o, !.save = s,
                                    !.cell = cell]
          /\ latex_document' = LatexDocument(p, ParsedLibrary(l), o, cell)
    /\ frame' = [NoFrame EXCEPT !.fn = "run_latex", !.step = "with",
                                !.code = latex_document']
    /\ pc' = "run_latex"
    /\ UNCHANGED <<DEFAULT_LIBRARIES, fs, procs, savefile>>

\* mutant of tikz_run_latex_return: a failed run_latex() is tried once more
tikz_run_latex_retry ==
    /\ pc = "run_latex"
    /\ frame.fn = "run_latex" /\ frame.step = "done"
    /\ IF frame.outcome.kind = "raise"
       THEN IF Count(launched, {"pdflatex"}) <= 1
            THEN /\ frame' = [NoFrame EXCEPT !.fn = "run_latex", !.step = "with",
                                             !.code = latex_document]
                 /\ UNCHANGED <<pc, result, pdf_content>>
            ELSE /\ pc' = "Failed"
                 /\ result' = Propagated(frame.outcome.exc)
                 /\ frame' = [frame EXCEPT !.step = "returned"]
                 /\ UNCHANGED pdf_content
       ELSE /\ pc' = "save"
            /\ pdf_content' = {frame.outcome.value}
            /\ frame' = [frame EXCEPT !.step = "returned"]
            /\ UNCHANGED result
    /\ UNCHANGED <<DEFAULT_LIBRARIES, args, latex_document, fs, procs,
                   launched, savefile, saveWrites, nreq>>

\* line 214: run_latex() returns the PDF or its exception ends the request
tikz_run_latex_return ==
    /\ pc = "run_latex"
    /\ frame.fn = "run_latex" /\ frame.step = "done"
    /\ IF frame.outcome.kind = "raise"
       THEN /\ pc' = "Failed"
            /\ result' = Propagated(frame.outcome.exc)
            /\ UNCHANGED pdf_content
       ELSE /\ pc' = "save"
            /\ pdf_content' = {frame.outcome.value}
            /\ UNCHANGED result
    /\ frame' = [frame EXCEPT !.step = "returned"]
    /\ UNCHANGED <<DEFAULT_LIBRARIES, args, latex_document, fs, procs,
                   launched, savefile, saveWrites, nreq>>

\* mutant of tikz_save: the PDF is not written at this point
tikz_save_skipped ==
    /\ pc = "save"
    /\ pc' = "dispatch"
    /\ UNCHANGED <<DEFAULT_LIBRARIES, args, latex_document, pdf_content, frame,
                   fs, procs, launched, savefile, saveWrites, result, nreq>>

\* lines 215-217
tikz_save ==
    /\ pc = "save"
    /\ IF args.save # {}
       THEN /\ savefile' = pdf_content
            /\ saveWrites' = saveWrites + 1
       ELSE UNCHANGED <<savefile, saveWrites>>
    /\ pc' = "dispatch"
    /\ UNCHANGED <<DEFAULT_LIBRARIES, args, latex_document, pdf_content, frame,
                   fs, procs, launched, result, nreq>>

\* lines 218-223: svg calls convert_pdf2svg(); png evaluates display.Image
\* first, and tikz.py binds no name `display` (it imports displaypub only),
\* so NameError is raised before convert_pdf2png() is called
tikz_dispatch ==
    /\ pc = "dispatch"
    /\ IF args.format = "svg"
       THEN /\ frame' = [NoFrame EXCEPT !.fn = "convert_pdf2svg",
                                        !.step = "with",
                                        !.code = The(pdf_content)]
            /\ pc' = "convert_pdf2svg"
            /\ UNCHANGED result
       ELSE /\ pc' = "Failed"
            /\ result' = Propagated(Builtin("NameError"))
            /\ UNCHANGED frame
    /\ UNCHANGED <<DEFAULT_LIBRARIES, args, latex_document, pdf_content, fs,
                   procs, launched, savefile, saveWrites, nreq>>

\* lines 219-221: the SVG text is published, or ConvertError ends the request
tikz_convert_return ==
    /\ pc = "convert_pdf2svg"
    /\ frame.fn = "convert_pdf2svg" /\ frame.step = "done"
    /\ Finish(frame.outcome, "image/svg+xml")
    /\ frame' = [frame EXCEPT !.step = "returned"]
    /\ UNCHANGED <<DEFAULT_LIBRARIES, args, latex_document, pdf_content, fs,
                   procs, launched, savefile, saveWrites, nreq>>

(***************************************************************************)
(* The session: one request at a time, each run to its end.                *)
(***************************************************************************)
Next ==
    \/ graphviz_magic
    \/ graphviz_Popen
    \/ graphviz_communicate
    \/ graphviz_check
    \/ graphviz_magic_return
    \/ tikz
    \/ run_latex_enter
    \/ run_latex_call
    \/ pdflatex_exit
    \/ run_latex_check
    \/ run_latex_exit
    \/ tikz_run_latex_return
    \/ tikz_save
    \/ tikz_dispatch
    \/ convert_pdf2svg_enter
    \/ convert_pdf2svg_call
    \/ pdf2svg_exit
    \/ convert_pdf2svg_check
    \/ convert_pdf2svg_exit
    \/ tikz_convert_return
    \/ call_convert_pdf2png
    \/ convert_pdf2png_enter
    \/ convert_pdf2png_call
    \/ convert_exit
    \/ convert_pdf2png_check
    \/ convert_pdf2png_exit
    \/ convert_pdf2png_return

Spec == Init /\ [][Next]_vars

(***************************************************************************)
(* Terms of the properties.                                                *)
(***************************************************************************)
FileCalls == {"run_latex", "convert_pdf2svg", "convert_pdf2png"}

\* the call in `frame` has ended: its return value or exception is decided
\* and its with block (if any) has been left
Ended == frame.step \in {"done", "returned"}

\* the external process ran and ended with a non-zero / zero exit status
ExitedNonZero == frame.exited /\ frame.returncode # 0
ExitedZero == frame.exited /\ frame.returncode = 0

\* the error class a call raises for its renderer or converter
ErrorOf(fn) ==
    IF fn = "graphviz" THEN "GraphvizError"
    ELSE IF fn = "run_latex" THEN "LatexError" ELSE "ConvertError"

RaisedOwnError ==
    frame.outcome.kind = "raise" /\ frame.outcome.exc.type = ErrorOf(frame.fn)

Directives(libraries) ==
    [i \in 1 .. Len(libraries) |-> "\\usetikzlibrary{" \o libraries[i] \o "}"]

(***************************************************************************)
(* Properties.                                                             *)
(***************************************************************************)

\* C1: one invocation of graphviz() or run_latex() ends in exactly one of
\* two ways, a returned result or the render error (GraphvizError /
\* LatexError); the render error is raised if and only if the process exited
\* non-zero or could not be launched, and a result is returned if and only if
\* the process exited zero and the expected output was there.
\* Stated as claimed; the code does not satisfy it.
C1_TwoExclusiveOutcomes ==
    (frame.fn \in {"graphviz", "run_latex"} /\ Ended) =>
        LET error == RaisedOwnError
            value == frame.outcome.kind = "return"
        IN  /\ error \/ value
            /\ ~(error /\ value)
            /\ error <=> (frame.oserror = "launch" \/ ExitedNonZero)
            /\ value <=> (ExitedZero /\ frame.artifact)

\* C2: once run_latex, convert_pdf2svg or convert_pdf2png has ended, by
\* return or by any raise, the temporary directory it created is gone, and
\* no directory of an earlier call is left over when a call starts or while
\* no file-based call is running.
C2_TempDirRemoved ==
    /\ (frame.fn \in FileCalls /\ Ended) => frame.tempdir \notin DOMAIN fs
    /\ (frame.fn \notin FileCalls \/ Ended \/ frame.step = "with")
          => DOMAIN fs = {}

\* C2 witness: convert_pdf2png has ended by raising because convert could
\* not be launched, after its directory had been created.
C2_Witness ==
    /\ frame.fn = "convert_pdf2png" /\ Ended
    /\ frame.tempdir # 0
    /\ frame.oserror = "launch"
    /\ frame.outcome.kind = "raise"

\* C3: when the renderer of graphviz() or run_latex() exits non-zero, the
\* call raises its render error with returncode equal to the exit status
\* and code equal to the source text it was given.
\* Stated as claimed; the code does not satisfy it.
C3_ErrorCarriesExitAndSource ==
    (frame.fn \in {"graphviz", "run_latex"} /\ Ended /\ ExitedNonZero) =>
        /\ RaisedOwnError
        /\ frame.outcome.exc.returncode = frame.returncode
        /\ frame.outcome.exc.code = frame.code

\* C4: when the process of a file-based call exits zero and its expected
\* output file is absent, the call raises its own error (LatexError /
\* ConvertError) with the text 'no output created' and returns nothing.
C4_MissingOutputIsError ==
    (frame.fn \in FileCalls /\ frame.step \in {"exit", "done", "returned"}
        /\ ExitedZero /\ ~frame.artifact) =>
        /\ RaisedOwnError
        /\ frame.outcome.exc.stderr = NoOutputCreated
        /\ (pc \in {"Succeeded", "Failed"} =>
               pc = "Failed" /\ result.status = "raised")

\* C4 witness: pdf2svg exited zero without writing outsvg.svg and
\* convert_pdf2svg has ended.
C4_Witness ==
    /\ frame.fn = "convert_pdf2svg" /\ frame.step = "done"
    /\ ExitedZero /\ ~frame.artifact

\* C5: in the errors of the file-based calls the returncode tells a launch
\* failure from a process that ran and failed: a launch failure carries -1,
\* an error for a process that exited non-zero carries that exit status, and
\* never -1.
\* Stated as claimed; the code does not satisfy it.
C5_LaunchFailureDistinct ==
    (frame.fn \in FileCalls /\ Ended /\ RaisedOwnError) =>
        /\ frame.oserror = "launch" => frame.outcome.exc.returncode = -1
        /\ ExitedNonZero =>
              /\ frame.outcome.exc.returncode = frame.returncode
              /\ frame.outcome.exc.returncode # -1

\* C6: when starting the process of graphviz() or communicating with it
\* raises OSError, the call ends by raising GraphvizError whose returncode
\* is no exit status of a process (it marks 'failed to launch').
\* Stated as claimed; the code does not satisfy it.
C6_OSFailureIsGraphvizError ==
    (frame.fn = "graphviz" /\ Ended /\ frame.oserror # "none") =>
        /\ RaisedOwnError
        /\ frame.outcome.exc.returncode \notin ReturnCodes

\* the current request is a %%tikz cell
Tikz == args.magic = "tikz"
Terminal == pc \in {"Succeeded", "Failed"}
\* a stage of the request has failed: an exception is on its way to the
\* caller or has reached it
Failing == pc = "Failed" \/ frame.outcome.kind = "raise"

C7_Order ==
    Tikz =>
        /\ Count(launched, {"pdflatex"}) <= 1
        /\ Count(launched, Converters) <= 1
        /\ Len(launched) = Count(launched, {"pdflatex"}) + Count(launched, Converters)
        /\ Cardinality(procs) <= 1
        /\ Count(launched, Converters) = 1 =>
              /\ launched[1] = "pdflatex"
              /\ pdf_content # {}
              /\ "pdflatex" \notin procs
        /\ pc = "Succeeded" => ~Failing

C7_NoLaunchAfterFailure ==
    (Tikz /\ Failing /\ nreq' = nreq) =>
        /\ Failing'
        /\ launched' = launched
        /\ procs' = {}
        /\ Terminal' => pc' = "Failed"

\* C7: in a %%tikz request pdflatex is started at most once, a converter at
\* most once and only after pdflatex has exited zero and code.pdf has been
\* read back, no two processes run at the same time, and once a stage has
\* failed the request starts no further process and ends in Failed.
C7_SequentialNoRetry == []C7_Order /\ [][C7_NoLaunchAfterFailure]_vars

\* C7 witness: pdflatex succeeded, pdf2svg was started after it and failed,
\* and the request has ended in Failed.
C7_Witness ==
    /\ Tikz /\ pc = "Failed"
    /\ launched = <<"pdflatex", "pdf2svg">>
    /\ result.exc.type = "ConvertError"

\* C8: a png request in which every external process exits zero and writes
\* its output ends in Succeeded with an Image display object that holds the
\* bytes of the last process unchanged, for %%graphviz and for %%tikz.
\* Stated as claimed; the code does not satisfy it.
C8_PngSucceedsWithBytes ==
    /\ (args.magic = "graphviz" /\ args.format = "png" /\ Terminal
          /\ ExitedZero /\ frame.oserror = "none") =>
          /\ pc = "Succeeded"
          /\ result.display = "Image"
          /\ result.data = frame.stdout
    /\ (Tikz /\ args.format = "png" /\ Terminal /\ pdf_content # {}
          /\ (frame.fn = "convert_pdf2png" => ExitedZero /\ frame.artifact)) =>
          /\ pc = "Succeeded"
          /\ result.display = "Image"
          /\ frame.fn = "convert_pdf2png"
          /\ result.data = frame.outcome.value

\* the names the caller gave: none when --library is left out
Supplied == IF args.libraryGiven THEN args.library ELSE <<>>

\* C9 as claimed: the library block is one directive per supplied library in
\* order, then the 10 defaults once each in their order; with no supplied
\* library it is the default set twice (20 directives); the default list
\* never grows.  The code does not satisfy the 20-directive part.
C9_AsClaimed ==
    Tikz =>
        LET block == latex_document.libraries
        IN  /\ DEFAULT_LIBRARIES = DefaultLibraryList
            /\ SubSeq(block, Len(block) - 9, Len(block)) = Directives(DefaultLibraryList)
            /\ Supplied # <<>> =>
                  block = Directives(Supplied) \o Directives(DefaultLibraryList)
            /\ Supplied = <<>> =>
                  block = Directives(DefaultLibraryList) \o Directives(DefaultLibraryList)

\* C9 amended: the library block is one directive per entry of args.library
\* in order (the names given to --library, or the 10 defaults when the
\* option is left out), then the 10 defaults once each in their order: 20
\* directives when --library is left out, 10 when it is given without a name;
\* the default list never grows across requests.
C9_LibraryBlock ==
    Tikz =>
        LET block == latex_document.libraries
        IN  /\ DEFAULT_LIBRARIES = DefaultLibraryList
            /\ Len(DEFAULT_LIBRARIES) = 10
            /\ args.libraryGiven =>
                  block = Directives(Supplied) \o Directives(DefaultLibraryList)
            /\ (args.libraryGiven /\ Supplied = <<>>) => Len(block) = 10
            /\ ~args.libraryGiven =>
                  /\ block = Directives(DefaultLibraryList) \o Directives(DefaultLibraryList)
                  /\ Len(block) = 20

\* C9 witness: a later request of the session gives --library without a name.
C9_Witness ==
    /\ Tikz /\ nreq >= 2
    /\ args.libraryGiven /\ args.library = <<>>
    /\ Len(latex_document.libraries) = 10

C10_SaveState ==
    (Tikz /\ args.save # {}) =>
        /\ saveWrites <= 1
        /\ saveWrites = 1 => (pdf_content # {} /\ savefile = pdf_content)
        /\ (pdf_content # {} /\ pc # "save") => saveWrites = 1
        /\ Count(launched, Converters) > 0 => saveWrites = 1
        /\ (pc = "Failed" /\ result.exc.type = "LatexError") => saveWrites = 0
        /\ (pc = "Failed" /\ result.exc.type = "ConvertError") =>
              (saveWrites = 1 /\ savefile = pdf_content)

C10_SaveStep ==
    (savefile' # savefile \/ saveWrites' > saveWrites) =>
        /\ Tikz /\ args.save # {}
        /\ pc = "save" /\ pdf_content # {}
        /\ savefile' = pdf_content
        /\ procs = {} /\ Count(launched, Converters) = 0

=============================================================================
